---- MODULE Spec2Model ----
(***************************************************************************)
(* Country vote API: the voting workflow (VotesService), the reference     *)
(* data gateway (CountriesService) and the two persisted relations User    *)
(* and Country, with the uniqueness constraints of the schema.             *)
(*                                                                         *)
(* Text that the code inspects character by character (country name,       *)
(* capital, region, subRegion, search queries) is a sequence of one        *)
(* character strings; opaque text (user name, email, country code) is a    *)
(* string.  An optional value is a sequence of length 0 (absent) or 1.     *)
(***************************************************************************)
EXTENDS Integers, Sequences, FiniteSets, TLC

\* ------------------------------------------------------------------ bounds
\* total number of submitVote calls in one behaviour
MaxCalls == 2

\* number of submitVote calls when they run one after the other
MaxSeqCalls == 3

\* number of calls on the countries gateway in one behaviour
MaxGatewayCalls == 3

\* longest list of codes passed to getCountriesByCodes
MaxCodes == 3

\* ------------------------------------------------------- program constants
\* findMany({ take: 10 })
Take == 10

NA == <<"N", "/", "A">>

\* ----------------------------------------------- external reference source
\* what GET <apiUrl>/all?fields=name,cca3,capital,region,subregion answers
RemoteCountries ==
  << [cca3 |-> "ARG", name |-> [common |-> <<"A", "r", "g", "e", "n", "t", "i", "n", "a">>],
      capital |-> <<<<"B", "u", "e", "n", "o", "s", " ", "A", "i", "r", "e", "s">>>>,
      region |-> <<"A", "m", "e", "r", "i", "c", "a", "s">>, subregion |-> <<"S", "o", "u", "t", "h", " ", "A", "m", "e", "r", "i", "c", "a">>],
     [cca3 |-> "BRA", name |-> [common |-> <<"B", "r", "a", "z", "i", "l">>],
      capital |-> <<<<"B", "r", "a", "s", "i", "l", "i", "a">>>>,
      region |-> <<"A", "m", "e", "r", "i", "c", "a", "s">>, subregion |-> <<"S", "o", "u", "t", "h", " ", "A", "m", "e", "r", "i", "c", "a">>],
     [cca3 |-> "USA", name |-> [common |-> <<"U", "n", "i", "t", "e", "d", " ", "S", "t", "a", "t", "e", "s">>],
      capital |-> <<<<"W", "a", "s", "h", "i", "n", "g", "t", "o", "n", ",", " ", "D", ".", "C", ".">>>>,
      region |-> <<"A", "m", "e", "r", "i", "c", "a", "s">>, subregion |-> <<"N", "o", "r", "t", "h", " ", "A", "m", "e", "r", "i", "c", "a">>],
     [cca3 |-> "CAN", name |-> [common |-> <<"C", "a", "n", "a", "d", "a">>],
      capital |-> <<<<"O", "t", "t", "a", "w", "a">>>>,
      region |-> <<"A", "m", "e", "r", "i", "c", "a", "s">>, subregion |-> <<"N", "o", "r", "t", "h", " ", "A", "m", "e", "r", "i", "c", "a">>],
     [cca3 |-> "MEX", name |-> [common |-> <<"M", "e", "x", "i", "c", "o">>],
      capital |-> <<<<"M", "e", "x", "i", "c", "o", " ", "C", "i", "t", "y">>>>,
      region |-> <<"A", "m", "e", "r", "i", "c", "a", "s">>, subregion |-> <<"N", "o", "r", "t", "h", " ", "A", "m", "e", "r", "i", "c", "a">>],
     [cca3 |-> "FRA", name |-> [common |-> <<"F", "r", "a", "n", "c", "e">>],
      capital |-> <<<<"P", "a", "r", "i", "s">>>>,
      region |-> <<"E", "u", "r", "o", "p", "e">>, subregion |-> <<"W", "e", "s", "t", "e", "r", "n", " ", "E", "u", "r", "o", "p", "e">>],
     [cca3 |-> "DEU", name |-> [common |-> <<"G", "e", "r", "m", "a", "n", "y">>],
      capital |-> <<<<"B", "e", "r", "l", "i", "n">>>>,
      region |-> <<"E", "u", "r", "o", "p", "e">>, subregion |-> <<"W", "e", "s", "t", "e", "r", "n", " ", "E", "u", "r", "o", "p", "e">>],
     [cca3 |-> "ESP", name |-> [common |-> <<"S", "p", "a", "i", "n">>],
      capital |-> <<<<"M", "a", "d", "r", "i", "d">>>>,
      region |-> <<"E", "u", "r", "o", "p", "e">>, subregion |-> <<"S", "o", "u", "t", "h", "e", "r", "n", " ", "E", "u", "r", "o", "p", "e">>],
     [cca3 |-> "ITA", name |-> [common |-> <<"I", "t", "a", "l", "y">>],
      capital |-> <<<<"R", "o", "m", "e">>>>,
      region |-> <<"E", "u", "r", "o", "p", "e">>, subregion |-> <<"S", "o", "u", "t", "h", "e", "r", "n", " ", "E", "u", "r", "o", "p", "e">>],
     [cca3 |-> "GBR", name |-> [common |-> <<"U", "n", "i", "t", "e", "d", " ", "K", "i", "n", "g", "d", "o", "m">>],
      capital |-> <<<<"L", "o", "n", "d", "o", "n">>>>,
      region |-> <<"E", "u", "r", "o", "p", "e">>, subregion |-> <<"N", "o", "r", "t", "h", "e", "r", "n", " ", "E", "u", "r", "o", "p", "e">>],
     [cca3 |-> "JPN", name |-> [common |-> <<"J", "a", "p", "a", "n">>],
      capital |-> <<<<"T", "o", "k", "y", "o">>>>,
      region |-> <<"A", "s", "i", "a">>, subregion |-> <<"E", "a", "s", "t", "e", "r", "n", " ", "A", "s", "i", "a">>],
     [cca3 |-> "AUS", name |-> [common |-> <<"A", "u", "s", "t", "r", "a", "l", "i", "a">>],
      capital |-> <<<<"C", "a", "n", "b", "e", "r", "r", "a">>>>,
      region |-> <<"O", "c", "e", "a", "n", "i", "a">>, subregion |-> <<"A", "u", "s", "t", "r", "a", "l", "i", "a", " ", "a", "n", "d", " ", "N", "e", "w", " ", "Z", "e", "a", "l", "a", "n", "d">>],
     [cca3 |-> "IND", name |-> [common |-> <<"I", "n", "d", "i", "a">>],
      capital |-> <<<<"N", "e", "w", " ", "D", "e", "l", "h", "i">>>>,
      region |-> <<"A", "s", "i", "a">>, subregion |-> <<"S", "o", "u", "t", "h", "e", "r", "n", " ", "A", "s", "i", "a">>],
     [cca3 |-> "CHN", name |-> [common |-> <<"C", "h", "i", "n", "a">>],
      capital |-> <<<<"B", "e", "i", "j", "i", "n", "g">>>>,
      region |-> <<"A", "s", "i", "a">>, subregion |-> <<"E", "a", "s", "t", "e", "r", "n", " ", "A", "s", "i", "a">>],
     [cca3 |-> "ZAF", name |-> [common |-> <<"S", "o", "u", "t", "h", " ", "A", "f", "r", "i", "c", "a">>],
      capital |-> <<<<"P", "r", "e", "t", "o", "r", "i", "a">>, <<"B", "l", "o", "e", "m", "f", "o", "n", "t", "e", "i", "n">>, <<"C", "a", "p", "e", " ", "T", "o", "w", "n">>>>,
      region |-> <<"A", "f", "r", "i", "c", "a">>, subregion |-> <<"S", "o", "u", "t", "h", "e", "r", "n", " ", "A", "f", "r", "i", "c", "a">>],
     [cca3 |-> "URY", name |-> [common |-> <<"U", "r", "u", "g", "u", "a", "y">>],
      capital |-> <<<<"M", "o", "n", "t", "e", "v", "i", "d", "e", "o">>>>,
      region |-> <<"A", "m", "e", "r", "i", "c", "a", "s">>, subregion |-> <<"S", "o", "u", "t", "h", " ", "A", "m", "e", "r", "i", "c", "a">>],
     [cca3 |-> "ATA", name |-> [common |-> <<"A", "n", "t", "a", "r", "c", "t", "i", "c", "a">>],
      capital |-> <<>>,
      region |-> <<"A", "n", "t", "a", "r", "c", "t", "i", "c">>, subregion |-> <<>>] >>

\* the source is not under the program's control: between two requests it
\* may have revised a record; here Uruguay without capital and subregion and
\* with an empty region
RemoteRevised ==
  [i \in DOMAIN RemoteCountries |->
     IF RemoteCountries[i].cca3 = "URY"
     THEN [RemoteCountries[i] EXCEPT !.capital = <<>>, !.region = <<>>,
                                     !.subregion = <<>>]
     ELSE RemoteCountries[i]]

RemoteResponses == {RemoteCountries, RemoteRevised}

\* the codes and users the seed script creates
popularCountryCodes ==
  << "ARG", "BRA", "USA", "CAN", "MEX", "FRA", "DEU", "ESP", "ITA", "GBR", "JPN", "AUS", "IND", "CHN", "ZAF" >>

seedUsers ==
  << [name |-> "Alice Johnson", email |-> "alice@example.com", countryCode |-> "ARG"],
     [name |-> "Bob Smith", email |-> "bob@example.com", countryCode |-> "ARG"],
     [name |-> "Charlie Brown", email |-> "charlie@example.com", countryCode |-> "ARG"],
     [name |-> "Diana Prince", email |-> "diana@example.com", countryCode |-> "BRA"],
     [name |-> "Ethan Hunt", email |-> "ethan@example.com", countryCode |-> "BRA"],
     [name |-> "Fiona Green", email |-> "fiona@example.com", countryCode |-> "BRA"],
     [name |-> "George Wilson", email |-> "george@example.com", countryCode |-> "BRA"],
     [name |-> "Hannah Lee", email |-> "hannah@example.com", countryCode |-> "USA"],
     [name |-> "Isaac Newton", email |-> "isaac@example.com", countryCode |-> "USA"],
     [name |-> "Julia Roberts", email |-> "julia@example.com", countryCode |-> "USA"],
     [name |-> "Kevin Hart", email |-> "kevin@example.com", countryCode |-> "USA"],
     [name |-> "Laura Palmer", email |-> "laura@example.com", countryCode |-> "USA"],
     [name |-> "Michael Scott", email |-> "michael@example.com", countryCode |-> "CAN"],
     [name |-> "Nina Simone", email |-> "nina@example.com", countryCode |-> "CAN"],
     [name |-> "Oscar Wilde", email |-> "oscar@example.com", countryCode |-> "CAN"],
     [name |-> "Patricia Hill", email |-> "patricia@example.com", countryCode |-> "MEX"],
     [name |-> "Quinn Fabray", email |-> "quinn@example.com", countryCode |-> "MEX"],
     [name |-> "Rachel Green", email |-> "rachel@example.com", countryCode |-> "FRA"],
     [name |-> "Steve Rogers", email |-> "steve@example.com", countryCode |-> "FRA"],
     [name |-> "Tina Fey", email |-> "tina@example.com", countryCode |-> "FRA"],
     [name |-> "Uma Thurman", email |-> "uma@example.com", countryCode |-> "DEU"],
     [name |-> "Victor Hugo", email |-> "victor@example.com", countryCode |-> "DEU"],
     [name |-> "Wendy Adams", email |-> "wendy@example.com", countryCode |-> "ESP"],
     [name |-> "Xavier Charles", email |-> "xavier@example.com", countryCode |-> "ESP"],
     [name |-> "Yolanda King", email |-> "yolanda@example.com", countryCode |-> "ITA"],
     [name |-> "Zoe Barnes", email |-> "zoe@example.com", countryCode |-> "ITA"],
     [name |-> "Andrew Taylor", email |-> "andrew@example.com", countryCode |-> "GBR"],
     [name |-> "Bella Swan", email |-> "bella@example.com", countryCode |-> "GBR"],
     [name |-> "Carlos Sainz", email |-> "carlos@example.com", countryCode |-> "JPN"],
     [name |-> "Daisy Johnson", email |-> "daisy@example.com", countryCode |-> "JPN"],
     [name |-> "Edward Cullen", email |-> "edward@example.com", countryCode |-> "AUS"],
     [name |-> "Felicity Smoak", email |-> "felicity@example.com", countryCode |-> "AUS"],
     [name |-> "Gary Cooper", email |-> "gary@example.com", countryCode |-> "IND"],
     [name |-> "Holly Woods", email |-> "holly@example.com", countryCode |-> "IND"],
     [name |-> "Ivan Drago", email |-> "ivan@example.com", countryCode |-> "CHN"],
     [name |-> "Jessica Jones", email |-> "jessica@example.com", countryCode |-> "ZAF"] >>

\* ---------------------------------------------------------- request inputs
\* concurrent requests being served
Procs == {"r1", "r2"}

\* requests are interchangeable: a later slot is taken only while the earlier
\* ones are busy
Slot(p) == IF p = "r1" THEN 1 ELSE 2

\* CreateVoteDto values submitted by clients: one name, an email the seed
\* already used and two fresh ones, a seeded code, a valid code that has no
\* Country row yet and a code the reference source does not know
Names == {"John Doe"}
Emails == {"alice@example.com", "a@x.com", "b@x.com"}
Codes == {"ARG", "URY", "XXX"}
CreateVoteDto == [name : Names, email : Emails, country : Codes]

NoDto == [name |-> "", email |-> "", country |-> ""]

VARIABLES
  users,           \* relation User: rows [id, name, email, countryId]
  countries,       \* relation Country: rows [id, code, name, capital, region, subRegion, votes]
  countriesCache,  \* CountriesService.countriesCache: <<>> (null) or <<list>>
  fetchCount,      \* outbound requests issued by axios.get so far
  pc,              \* per request: the await submitVote is suspended at
  args,            \* per request: createVoteDto
  countryData,     \* per request: local countryData, <<>> until resolved
  country,         \* per request: id of local country, 0 until resolved
  outcome,         \* per request: "pending", "resolved" or the exception thrown
  wrote,           \* per request: the writes this call has committed
  pre,             \* per request: the relations as they were when it was called
  calls,           \* submitVote calls started so far
  raised,          \* per request: the exception raised inside the try, if any
  submitted,       \* per country code: the submitVote calls that resolved
  fetchFailed,     \* the submissions whose outbound request failed
  visited,         \* per request: the statements this call has executed
  voted,           \* <<email, code>> of every vote that was recorded
  reply,           \* what the last call on the countries gateway returned
  response         \* the answer of a leaderboard / search query, until delivered

vars == <<users, countries, countriesCache, fetchCount, pc, args, countryData,
          country, outcome, raised, wrote, pre, calls, submitted, fetchFailed,
          visited, voted, reply, response>>

\* --------------------------------------------------- CountriesService (pure)
\* codes asked of the gateway: known ones, an unknown one, and one that
\* differs from a known code only in letter case
GatewayCodes == {"ARG", "arg", "URY", "XXX"}

\* toUpperCase() of a code
UpperCode == [c \in GatewayCodes |-> IF c = "arg" THEN "ARG" ELSE c]

\* a comparison that ignores letter case
SameCode_IgnoreCase(a, b) ==
  (IF a \in GatewayCodes THEN UpperCode[a] ELSE a)
    = (IF b \in GatewayCodes THEN UpperCode[b] ELSE b)

\* c.cca3 === code
SameCode(a, b) == a = b

\* a lookup that takes whatever record comes first
getCountryByCode_First(list, code) ==
  IF Len(list) = 0 THEN <<>> ELSE <<list[1]>>

\* countries.find((c) => c.cca3 === code) || null
getCountryByCode(list, code) ==
  LET hits == {i \in 1..Len(list) : SameCode(list[i].cca3, code)}
  IN IF hits = {} THEN <<>>
     ELSE <<list[CHOOSE i \in hits : \A j \in hits : i <= j]>>

\* codes.includes(cca3)
Includes(codes, cca3) == \E i \in DOMAIN codes : codes[i] = cca3

\* a mapping with an entry for every requested code, empty for unknown ones
getCountriesByCodes_Placeholder(list, codes) ==
  [k \in {codes[i] : i \in DOMAIN codes} |->
     IF \E i \in DOMAIN list : list[i].cca3 = k
     THEN list[CHOOSE i \in DOMAIN list : list[i].cca3 = k]
     ELSE [cca3 |-> ""]]

\* countries.forEach((country) => { if (codes.includes(country.cca3))
\*   countryMap.set(country.cca3, country) }): the last record of a code wins
getCountriesByCodes(list, codes) ==
  LET hits == {i \in DOMAIN list : Includes(codes, list[i].cca3)}
  IN [k \in {list[i].cca3 : i \in hits} |->
        list[CHOOSE i \in hits :
               /\ list[i].cca3 = k
               /\ \A j \in hits : list[j].cca3 = k => j <= i]]

\* ------------------------------------------------------- persistence layer
\* the duplicate check finds nobody
userFindUnique_Miss(us, email) == {}

\* db.user.findUnique({ where: { email } })
userFindUnique(us, email) == {u \in us : u.email = email}

\* a lookup that does not filter by code
countryFindUnique_Any(cs, code) == cs

\* db.country.findUnique({ where: { code } })
countryFindUnique(cs, code) == {c \in cs : c.code = code}

\* surrogate keys: rows are never deleted, so the next key is fresh
NewId(rows) == Cardinality(rows) + 1

\* the row data without the fallbacks
CountryCreateData_NoFallback(code, data) ==
  [code |-> code,
   name |-> data.name.common,
   capital |-> IF Len(data.capital) = 0 THEN <<>> ELSE data.capital[1],
   region |-> data.region,
   subRegion |-> data.subregion,
   votes |-> 0]

\* data: { code, name, capital: capital?.[0] || 'N/A', region,
\*         subRegion: subregion || 'N/A', votes: 0 }
CountryCreateData(code, data) ==
  [code |-> code,
   name |-> data.name.common,
   capital |-> IF Len(data.capital) = 0 \/ data.capital[1] = <<>>
               THEN NA ELSE data.capital[1],
   region |-> data.region,
   subRegion |-> IF data.subregion = <<>> THEN NA ELSE data.subregion,
   votes |-> 0]

WithId(id, data) ==
  [id |-> id, code |-> data.code, name |-> data.name, capital |-> data.capital,
   region |-> data.region, subRegion |-> data.subRegion, votes |-> data.votes]

\* the Country table without a unique index on code
countryCreateAllowed_NoIndex(cs, data) == TRUE

\* unique index on Country.code: the insert is refused when the code exists
countryCreateAllowed(cs, data) == \A c \in cs : c.code # data.code

countryCreate(cs, data) == cs \cup {WithId(NewId(cs), data)}

\* the User table without its unique index
userCreateAllowed_NoIndex(us, data) == TRUE

\* unique index User_email_key: the insert is refused when the email exists
userCreateAllowed(us, data) == \A u \in us : u.email # data.email

\* an insert that replaces the earlier voters of the same country
userCreate_Replace(us, data) ==
  {u \in us : u.countryId # data.countryId}
    \cup {[id |-> NewId(us), name |-> data.name, email |-> data.email,
            countryId |-> data.countryId]}

\* db.user.create({ data: { name, email, countryId } })
userCreate(us, data) ==
  us \cup {[id |-> NewId(us), name |-> data.name, email |-> data.email,
            countryId |-> data.countryId]}

\* data: { votes: 1 } instead of an increment
countryIncrement_Set(cs, id) ==
  {IF c.id = id THEN [c EXCEPT !.votes = 1] ELSE c : c \in cs}

\* db.country.update({ where: { id }, data: { votes: { increment: 1 } } })
countryIncrement(cs, id) ==
  {IF c.id = id THEN [c EXCEPT !.votes = c.votes + 1] ELSE c : c \in cs}

\* $transaction([user.create, country.update]): both statements or neither
TransactionCommits(us, cs, data) ==
  /\ userCreateAllowed(us, data)
  /\ \E c \in cs : c.id = data.countryId

\* the insert survives a batch that failed
TransactionUsers_NoRollback(us, cs, data) == userCreate(us, data)

TransactionUsers(us, cs, data) ==
  IF TransactionCommits(us, cs, data) THEN userCreate(us, data) ELSE us

\* the increment runs outside the batch
TransactionCountries_NoRollback(us, cs, data) ==
  IF \E c \in cs : c.id = data.countryId
  THEN countryIncrement(cs, data.countryId) ELSE cs

TransactionCountries(us, cs, data) ==
  IF TransactionCommits(us, cs, data)
  THEN countryIncrement(cs, data.countryId) ELSE cs

\* what a statement changed: the rows it inserted, removed or updated
Writes(us, cs, us2, cs2) ==
  {<<"user.create", u.id>> : u \in {v \in us2 : \A w \in us : w.id # v.id}}
    \cup {<<"user.update", u.id>> :
            u \in {v \in us2 : v \notin us /\ \E w \in us : w.id = v.id}}
    \cup {<<"user.delete", u.id>> : u \in {v \in us : \A w \in us2 : w.id # v.id}}
    \cup {<<"country.create", c.id>> : c \in {d \in cs2 : \A e \in cs : e.id # d.id}}
    \cup {<<"country.update", c.id>> :
            c \in {d \in cs2 : d \notin cs /\ \E e \in cs : e.id = d.id}}
    \cup {<<"country.delete", c.id>> : c \in {d \in cs : \A e \in cs2 : e.id # d.id}}

\* ------------------------------------------------------------ seed utility
\* countries created by the seed loop, votes as left by the user loop
SeedCountries ==
  {[WithId(i, CountryCreateData(popularCountryCodes[i],
        getCountryByCode(RemoteCountries, popularCountryCodes[i])[1]))
      EXCEPT !.votes = Cardinality({k \in DOMAIN seedUsers :
                          seedUsers[k].countryCode = popularCountryCodes[i]})]
    : i \in {j \in DOMAIN popularCountryCodes :
               getCountryByCode(RemoteCountries, popularCountryCodes[j]) # <<>>}}

SeedUsers ==
  {[id |-> k, name |-> seedUsers[k].name, email |-> seedUsers[k].email,
    countryId |-> (CHOOSE c \in SeedCountries :
                     c.code = seedUsers[k].countryCode).id]
    : k \in {j \in DOMAIN seedUsers :
               \E c \in SeedCountries : c.code = seedUsers[j].countryCode}}

\* the vote each seed user stands for
SeedVoted ==
  {<<seedUsers[k].email, seedUsers[k].countryCode>> :
     k \in {j \in DOMAIN seedUsers :
              \E c \in SeedCountries : c.code = seedUsers[j].countryCode}}

\* --------------------------------------------------------------- text
Upper == <<"A", "B", "C", "D", "E", "F", "G", "H", "I", "J", "K", "L", "M",
           "N", "O", "P", "Q", "R", "S", "T", "U", "V", "W", "X", "Y", "Z">>
Lower == <<"a", "b", "c", "d", "e", "f", "g", "h", "i", "j", "k", "l", "m",
           "n", "o", "p", "q", "r", "s", "t", "u", "v", "w", "x", "y", "z">>

UpperToLower ==
  [ch \in {Upper[i] : i \in DOMAIN Upper} |->
     Lower[CHOOSE i \in DOMAIN Upper : Upper[i] = ch]]

LowerChar(ch) == IF ch \in DOMAIN UpperToLower THEN UpperToLower[ch] ELSE ch

ToLower(text) == [i \in DOMAIN text |-> LowerChar(text[i])]

WhiteSpace == {" ", "\t", "\n"}

\* collation weight of a character: the space before the letters, a letter
\* with its upper-case form
CollationWeight ==
  [ch \in {" "} \cup {Lower[i] : i \in DOMAIN Lower}
           \cup {Upper[i] : i \in DOMAIN Upper} |->
     IF ch = " " THEN 0
     ELSE CHOOSE i \in DOMAIN Lower : Lower[i] = ch \/ Upper[i] = ch]

\* the first position at which two texts differ in weight, 0 if none
FirstDifference(a, b) ==
  LET n == IF Len(a) < Len(b) THEN Len(a) ELSE Len(b)
      diff == {i \in 1..n : CollationWeight[a[i]] # CollationWeight[b[i]]}
  IN IF diff = {} THEN 0 ELSE CHOOSE i \in diff : \A j \in diff : i <= j

\* the comparison turned around
localeCompare_Reversed(a, b) ==
  LET k == FirstDifference(a, b)
  IN IF k # 0
     THEN (IF CollationWeight[a[k]] < CollationWeight[b[k]] THEN 1 ELSE -1)
     ELSE IF Len(a) # Len(b) THEN (IF Len(a) < Len(b) THEN 1 ELSE -1)
     ELSE 0

\* a.localeCompare(b): negative, 0 or positive; letters compare by their
\* place in the alphabet whatever their case, a prefix sorts first
localeCompare(a, b) ==
  LET k == FirstDifference(a, b)
  IN IF k # 0
     THEN (IF CollationWeight[a[k]] < CollationWeight[b[k]] THEN -1 ELSE 1)
     ELSE IF Len(a) # Len(b) THEN (IF Len(a) < Len(b) THEN -1 ELSE 1)
     ELSE 0

\* Array.prototype.sort((a, b) => a.name.localeCompare(b.name)): stable
RECURSIVE SortByName(_)
SortByName(list) ==
  IF Len(list) <= 1 THEN list
  ELSE LET sorted == SortByName(SubSeq(list, 1, Len(list) - 1))
           x == list[Len(list)]
           k == Cardinality({i \in DOMAIN sorted :
                               localeCompare(sorted[i].name, x.name) <= 0})
       IN SubSeq(sorted, 1, k) \o <<x>> \o SubSeq(sorted, k + 1, Len(sorted))

\* countries.map((country) => ({ name: country.name.common, code: country.cca3 }))
ToCountryDto(list) ==
  [i \in DOMAIN list |-> [name |-> list[i].name.common, code |-> list[i].cca3]]

\* String.prototype.trim
Trim(text) ==
  LET keep == {i \in DOMAIN text : text[i] \notin WhiteSpace}
  IN IF keep = {} THEN <<>>
     ELSE SubSeq(text, CHOOSE i \in keep : \A j \in keep : i <= j,
                       CHOOSE i \in keep : \A j \in keep : i >= j)

\* text contains part as a contiguous run
Contains(text, part) ==
  \E i \in 0..(Len(text) - Len(part)) :
    \A j \in 1..Len(part) : text[i + j] = part[j]

\* the filter without mode: 'insensitive'
ContainsInsensitive_CaseSensitive(text, query) == Contains(text, query)

\* { contains: query, mode: 'insensitive' }
ContainsInsensitive(text, query) == Contains(ToLower(text), ToLower(query))

\* ------------------------------------------------------- leaderboard reads
\* the order in which the store scans rows with equal votes is not fixed by
\* the query: by key ascending or by key descending
ScanOrders == {"asc", "desc"}

ScanBefore(scan, a, b) == IF scan = "asc" THEN a.id < b.id ELSE a.id > b.id

\* orderBy: { votes: 'asc' }
FirstByVotes_Asc(rows, scan) ==
  CHOOSE r \in rows : \A o \in rows :
    o = r \/ r.votes < o.votes \/ (r.votes = o.votes /\ ScanBefore(scan, r, o))

\* orderBy: { votes: 'desc' }: the row the ordered scan delivers first
FirstByVotes(rows, scan) ==
  CHOOSE r \in rows : \A o \in rows :
    o = r \/ r.votes > o.votes \/ (r.votes = o.votes /\ ScanBefore(scan, r, o))

RECURSIVE OrderByVotesDesc(_, _)
OrderByVotesDesc(rows, scan) ==
  IF rows = {} THEN <<>>
  ELSE LET r == FirstByVotes(rows, scan)
       IN <<r>> \o OrderByVotesDesc(rows \ {r}, scan)

\* the read cut one row short
TakeRows_OneLess(list, n) ==
  SubSeq(list, 1, IF Len(list) < n THEN Len(list) - 1 ELSE n - 1)

\* take: 10
TakeRows(list, n) == SubSeq(list, 1, IF Len(list) < n THEN Len(list) ELSE n)

\* the read without its votes filter
HasVotes_Any(c) == TRUE

\* where: { votes: { gt: 0 } }
HasVotes(c) == c.votes > 0

\* where: { AND: [ votes gt 0, { OR: [name, capital, region, subRegion] } ] }
MatchesSearch(c, query) ==
  /\ HasVotes(c)
  /\ \/ ContainsInsensitive(c.name, query)
     \/ ContainsInsensitive(c.capital, query)
     \/ ContainsInsensitive(c.region, query)
     \/ ContainsInsensitive(c.subRegion, query)

\* rank: index
ToDto_ZeroBased(list) ==
  [i \in DOMAIN list |->
     [country |-> list[i].name,
      capital |-> IF list[i].capital = <<>> THEN NA ELSE list[i].capital,
      region |-> list[i].region,
      subRegion |-> list[i].subRegion,
      votes |-> list[i].votes,
      rank |-> i - 1]]

\* countries.map((country, index) => ({ ..., rank: index + 1 }))
ToDto(list) ==
  [i \in DOMAIN list |->
     [country |-> list[i].name,
      capital |-> IF list[i].capital = <<>> THEN NA ELSE list[i].capital,
      region |-> list[i].region,
      subRegion |-> list[i].subRegion,
      votes |-> list[i].votes,
      rank |-> (i - 1) + 1]]

getTopCountries(cs, scan) ==
  ToDto(TakeRows(OrderByVotesDesc({c \in cs : HasVotes(c)}, scan), Take))

\* the test without trim()
IsBlank_NoTrim(query) == query = <<>> \/ Len(query[1]) = 0

\* if (!query || query.trim().length === 0)
IsBlank(query) == query = <<>> \/ Len(query[1]) = 0 \/ Len(Trim(query[1])) = 0

searchCountries(cs, query, scan) ==
  IF IsBlank(query) THEN getTopCountries(cs, scan)
  ELSE ToDto(TakeRows(OrderByVotesDesc(
               {c \in cs : MatchesSearch(c, query[1])}, scan), Take))

\* the q parameter of GET /votes/search: absent, empty, blank, and texts
\* that match few, many or no rows
Queries ==
  {<<>>, <<<<>>>>, <<<<" ", " ">>>>, <<<<"\t", " ", "\n">>>>,
   <<<<"a">>>>, <<<<"A", "M", "E", "R">>>>, <<<<"e", "u", "r", "o", "p", "e">>>>,
   <<<<"z", "z">>>>}

\* ------------------------------------------------------------ HTTP surface
\* status the framework answers for what submitVote resolved or threw
HttpStatus(o) ==
  CASE o = "resolved" -> 201
    [] o = "ConflictException" -> 409
    [] o = "BadRequestException" -> 400
    [] OTHER -> 500

NoResponse == [op |-> "none", query |-> <<>>, data |-> <<>>]
NoReply == [op |-> "none", input |-> <<>>, threw |-> FALSE, value |-> <<>>]
NoSnapshot == [users |-> {}, countries |-> {}]

\* ------------------------------------------------------------------- Init
Init ==
  /\ \E seeded \in BOOLEAN :
       /\ users = IF seeded THEN SeedUsers ELSE {}
       /\ countries = IF seeded THEN SeedCountries ELSE {}
       /\ voted = IF seeded THEN SeedVoted ELSE {}
  /\ countriesCache = <<>>
  /\ fetchCount = 0
  /\ pc = [p \in Procs |-> "idle"]
  /\ args = [p \in Procs |-> NoDto]
  /\ countryData = [p \in Procs |-> <<>>]
  /\ country = [p \in Procs |-> 0]
  /\ outcome = [p \in Procs |-> "pending"]
  /\ wrote = [p \in Procs |-> {}]
  /\ pre = [p \in Procs |-> NoSnapshot]
  /\ calls = 0
  /\ raised = [p \in Procs |-> "none"]
  /\ submitted = [c \in Codes |-> 0]
  /\ fetchFailed = {}
  /\ visited = [p \in Procs |-> {}]
  /\ reply = NoReply
  /\ response = NoResponse

\* ------------------------------------------------------------- submitVote
\* a request arrives: POST /votes with a validated body
Call(p, dto, limit, snapshot) ==
  /\ pc[p] = "idle"
  /\ \A q \in Procs : Slot(q) < Slot(p) => pc[q] # "idle"
  /\ calls < limit
  /\ calls' = calls + 1
  /\ pc' = [pc EXCEPT ![p] = "user.findUnique"]
  /\ args' = [args EXCEPT ![p] = dto]
  /\ pre' = [pre EXCEPT ![p] = snapshot]
  /\ response' = NoResponse
  /\ UNCHANGED <<submitted, fetchFailed, voted, reply>>
  /\ UNCHANGED visited
  /\ UNCHANGED <<users, countries, countriesCache, fetchCount, countryData,
                 country, outcome, raised, wrote>>

\* a catch that turns what it does not know into the invalid-country signal
Catch_AsBadRequest(error) ==
  CASE error = "ConflictException" -> error
    [] error = "BadRequestException" -> error
    [] OTHER -> "BadRequestException"

\* catch (error): the two typed signals are rethrown as they are, anything
\* else is logged with status 500 and rethrown
Catch(error) ==
  CASE error = "ConflictException" -> error
    [] error = "BadRequestException" -> error
    [] OTHER -> error

\* a call that answers every exception with one wrapped error
Finish_WrapsAll(p, o) ==
  /\ pc' = [pc EXCEPT ![p] = "done"]
  /\ raised' = [raised EXCEPT ![p] = IF o = "resolved" THEN "none" ELSE o]
  /\ outcome' = [outcome EXCEPT ![p] =
                   IF o = "resolved" THEN o ELSE "InternalServerErrorException"]

\* the call ends: it resolved, or what it raised went through the catch
Finish(p, o) ==
  /\ pc' = [pc EXCEPT ![p] = "done"]
  /\ raised' = [raised EXCEPT ![p] = IF o = "resolved" THEN "none" ELSE o]
  /\ outcome' = [outcome EXCEPT ![p] = IF o = "resolved" THEN o ELSE Catch(o)]

\* the duplicate check does not stop the call
FindUser_GoesOn(p) ==
  /\ pc[p] = "user.findUnique"
  /\ pc' = [pc EXCEPT ![p] = "getCountryByCode"]
  /\ response' = NoResponse
  /\ UNCHANGED <<submitted, fetchFailed, voted, reply>>
  /\ visited' = [visited EXCEPT ![p] = @ \cup {pc[p]}]
  /\ UNCHANGED <<users, countries, countriesCache, fetchCount, args,
                 countryData, country, outcome, raised, wrote, pre, calls>>

\* existingUser = await db.user.findUnique; if (existingUser) throw Conflict
FindUser(p) ==
  /\ pc[p] = "user.findUnique"
  /\ IF userFindUnique(users, args[p].email) # {}
     THEN Finish(p, "ConflictException")
     ELSE /\ pc' = [pc EXCEPT ![p] = "getCountryByCode"]
          /\ UNCHANGED <<outcome, raised>>
  /\ response' = NoResponse
  /\ UNCHANGED <<submitted, fetchFailed, voted, reply>>
  /\ visited' = [visited EXCEPT ![p] = @ \cup {pc[p]}]
  /\ UNCHANGED <<users, countries, countriesCache, fetchCount, args,
                 countryData, country, wrote, pre, calls>>

\* if (!countryData) throw BadRequest, else go on to db.country.findUnique
Validated(p, data) ==
  IF data = <<>>
  THEN /\ Finish(p, "BadRequestException")
       /\ UNCHANGED countryData
  ELSE /\ pc' = [pc EXCEPT ![p] = "country.findUnique"]
       /\ countryData' = [countryData EXCEPT ![p] = data]
       /\ UNCHANGED <<outcome, raised>>

\* getCountryByCode -> getAllCountries with the cache populated
LookupCached(p) ==
  /\ pc[p] = "getCountryByCode"
  /\ countriesCache # <<>>
  /\ Validated(p, getCountryByCode(countriesCache[1], args[p].country))
  /\ response' = NoResponse
  /\ UNCHANGED <<submitted, fetchFailed, voted, reply>>
  /\ visited' = [visited EXCEPT ![p] = @ \cup {pc[p]}]
  /\ UNCHANGED <<users, countries, countriesCache, fetchCount, args, country,
                 wrote, pre, calls>>

\* getAllCountries with the cache empty: issue the outbound request
FetchStart(p) ==
  /\ pc[p] = "getCountryByCode"
  /\ countriesCache = <<>>
  /\ fetchCount' = fetchCount + 1
  /\ pc' = [pc EXCEPT ![p] = "axios.get"]
  /\ response' = NoResponse
  /\ UNCHANGED <<submitted, fetchFailed, voted, reply>>
  /\ visited' = [visited EXCEPT ![p] = @ \cup {pc[p]}]
  /\ UNCHANGED <<users, countries, countriesCache, args, countryData, country,
                 outcome, raised, wrote, pre, calls>>

\* the request answers: countriesCache = response.data, then the lookup
FetchOk(p) ==
  /\ pc[p] = "axios.get"
  /\ \E data \in RemoteResponses :
       /\ countriesCache' = <<data>>
       /\ Validated(p, getCountryByCode(data, args[p].country))
  /\ response' = NoResponse
  /\ UNCHANGED <<submitted, fetchFailed, voted, reply>>
  /\ visited' = [visited EXCEPT ![p] = @ \cup {pc[p]}]
  /\ UNCHANGED <<users, countries, fetchCount, args, country, wrote, pre, calls>>

\* the failed request leaves a list in the cache
FetchFail_Caches(p, failed) ==
  /\ pc[p] = "axios.get"
  /\ Finish(p, "Error: Failed to fetch countries")
  /\ countriesCache' = <<RemoteCountries>>
  /\ response' = NoResponse
  /\ fetchFailed' = failed
  /\ UNCHANGED <<submitted, voted, reply>>
  /\ visited' = [visited EXCEPT ![p] = @ \cup {pc[p]}]
  /\ UNCHANGED <<users, countries, fetchCount, args, countryData, country,
                 wrote, pre, calls>>

\* the request fails: throw new Error('Failed to fetch countries'); nothing
\* is cached. failed is the record of failed submissions after the step
FetchFail(p, failed) ==
  /\ pc[p] = "axios.get"
  /\ Finish(p, "Error: Failed to fetch countries")
  /\ response' = NoResponse
  /\ fetchFailed' = failed
  /\ UNCHANGED <<submitted, voted, reply>>
  /\ visited' = [visited EXCEPT ![p] = @ \cup {pc[p]}]
  /\ UNCHANGED <<users, countries, countriesCache, fetchCount, args,
                 countryData, country, wrote, pre, calls>>

\* a lookup that brings the row it finds up to date with the reference record
FindCountry_Refreshes(p) ==
  /\ pc[p] = "country.findUnique"
  /\ LET found == countryFindUnique(countries, args[p].country)
         data == CountryCreateData(args[p].country, countryData[p][1])
     IN IF found = {}
        THEN /\ pc' = [pc EXCEPT ![p] = "country.create"]
             /\ UNCHANGED <<country, countries>>
        ELSE /\ pc' = [pc EXCEPT ![p] = "$transaction"]
             /\ country' = [country EXCEPT ![p] = (CHOOSE c \in found : TRUE).id]
             /\ countries' = {IF c \in found
                                THEN [c EXCEPT !.name = data.name,
                                               !.capital = data.capital,
                                               !.region = data.region,
                                               !.subRegion = data.subRegion]
                                ELSE c : c \in countries}
  /\ response' = NoResponse
  /\ UNCHANGED <<submitted, fetchFailed, voted, reply>>
  /\ visited' = [visited EXCEPT ![p] = @ \cup {pc[p]}]
  /\ UNCHANGED <<users, countriesCache, fetchCount, args,
                 countryData, outcome, raised, wrote, pre, calls>>

\* let country = await db.country.findUnique({ where: { code } })
FindCountry(p) ==
  /\ pc[p] = "country.findUnique"
  /\ LET found == countryFindUnique(countries, args[p].country)
     IN IF found = {}
        THEN /\ pc' = [pc EXCEPT ![p] = "country.create"]
             /\ UNCHANGED country
        ELSE /\ pc' = [pc EXCEPT ![p] = "$transaction"]
             /\ country' = [country EXCEPT ![p] = (CHOOSE c \in found : TRUE).id]
  /\ response' = NoResponse
  /\ UNCHANGED <<submitted, fetchFailed, voted, reply>>
  /\ visited' = [visited EXCEPT ![p] = @ \cup {pc[p]}]
  /\ UNCHANGED <<users, countries, countriesCache, fetchCount, args,
                 countryData, outcome, raised, wrote, pre, calls>>

\* a create that falls back to the row another call has inserted
CreateCountry_Rereads(p) ==
  /\ pc[p] = "country.create"
  /\ LET data == CountryCreateData(args[p].country, countryData[p][1])
     IN IF countryCreateAllowed(countries, data)
        THEN /\ countries' = countryCreate(countries, data)
             /\ country' = [country EXCEPT ![p] = NewId(countries)]
             /\ wrote' = [wrote EXCEPT ![p] =
                            @ \cup Writes(users, countries, users, countries')]
        ELSE /\ country' = [country EXCEPT ![p] =
                  (CHOOSE c \in countries : c.code = data.code).id]
             /\ UNCHANGED <<countries, wrote>>
  /\ pc' = [pc EXCEPT ![p] = "$transaction"]
  /\ response' = NoResponse
  /\ UNCHANGED <<submitted, fetchFailed, voted, reply>>
  /\ visited' = [visited EXCEPT ![p] = @ \cup {pc[p]}]
  /\ UNCHANGED <<users, countriesCache, fetchCount, args, countryData, pre,
                 calls, outcome, raised>>

\* country = await db.country.create({ data })
CreateCountry(p) ==
  /\ pc[p] = "country.create"
  /\ LET data == CountryCreateData(args[p].country, countryData[p][1])
     IN IF countryCreateAllowed(countries, data)
        THEN /\ countries' = countryCreate(countries, data)
             /\ country' = [country EXCEPT ![p] = NewId(countries)]
             /\ wrote' = [wrote EXCEPT ![p] =
                            @ \cup Writes(users, countries, users, countries')]
             /\ pc' = [pc EXCEPT ![p] = "$transaction"]
             /\ UNCHANGED <<outcome, raised>>
        ELSE /\ Finish(p, "P2002: Country.code")
             /\ UNCHANGED <<countries, country, wrote>>
  /\ response' = NoResponse
  /\ UNCHANGED <<submitted, fetchFailed, voted, reply>>
  /\ visited' = [visited EXCEPT ![p] = @ \cup {pc[p]}]
  /\ UNCHANGED <<users, countriesCache, fetchCount, args, countryData, pre, calls>>

\* the increment written from a value read earlier: it is lost when another
\* call for the same row is between its read and its write
Transaction_ReadModifyWrite(p) ==
  /\ pc[p] = "$transaction"
  /\ LET data == [name |-> args[p].name, email |-> args[p].email,
                  countryId |-> country[p]]
     IN /\ users' = TransactionUsers(users, countries, data)
        /\ countries' = IF \E q \in Procs : /\ q # p
                                             /\ pc[q] = "$transaction"
                                             /\ country[q] = country[p]
                        THEN countries
                        ELSE TransactionCountries(users, countries, data)
        /\ wrote' = [wrote EXCEPT ![p] =
                       @ \cup Writes(users, countries, users', countries')]
        /\ IF TransactionCommits(users, countries, data)
           THEN /\ Finish(p, "resolved")
                /\ submitted' = [submitted EXCEPT ![args[p].country] = @ + 1]
                /\ voted' = voted \cup {<<args[p].email, args[p].country>>}
           ELSE /\ Finish(p, "P2002: User.email")
                /\ UNCHANGED <<submitted, voted>>
  /\ response' = NoResponse
  /\ UNCHANGED <<fetchFailed, reply>>
  /\ visited' = [visited EXCEPT ![p] = @ \cup {pc[p]}]
  /\ UNCHANGED <<countriesCache, fetchCount, args, countryData, country, pre, calls>>

\* await db.$transaction([user.create, country.update increment])
Transaction(p) ==
  /\ pc[p] = "$transaction"
  /\ LET data == [name |-> args[p].name, email |-> args[p].email,
                  countryId |-> country[p]]
     IN /\ users' = TransactionUsers(users, countries, data)
        /\ countries' = TransactionCountries(users, countries, data)
        /\ wrote' = [wrote EXCEPT ![p] =
                       @ \cup Writes(users, countries, users', countries')]
        /\ IF TransactionCommits(users, countries, data)
           THEN /\ Finish(p, "resolved")
                /\ submitted' = [submitted EXCEPT ![args[p].country] = @ + 1]
                /\ voted' = voted \cup {<<args[p].email, args[p].country>>}
           ELSE /\ Finish(p, "P2002: User.email")
                /\ UNCHANGED <<submitted, voted>>
  /\ response' = NoResponse
  /\ UNCHANGED <<fetchFailed, reply>>
  /\ visited' = [visited EXCEPT ![p] = @ \cup {pc[p]}]
  /\ UNCHANGED <<countriesCache, fetchCount, args, countryData, country, pre, calls>>

\* any database call may be rejected by the collaborator (connection lost,
\* timeout); the statement has no effect and the error reaches the catch
DbCalls == {"user.findUnique", "country.findUnique", "country.create", "$transaction"}

DatabaseError(p) ==
  /\ pc[p] \in DbCalls
  /\ Finish(p, "PrismaClientError")
  /\ response' = NoResponse
  /\ UNCHANGED <<submitted, fetchFailed, voted, reply>>
  /\ visited' = [visited EXCEPT ![p] = @ \cup {pc[p]}]
  /\ UNCHANGED <<users, countries, countriesCache, fetchCount, args,
                 countryData, country, wrote, pre, calls>>

\* the response is sent and the request is over
Return(p) ==
  /\ pc[p] = "done"
  /\ pc' = [pc EXCEPT ![p] = "idle"]
  /\ args' = [args EXCEPT ![p] = NoDto]
  /\ countryData' = [countryData EXCEPT ![p] = <<>>]
  /\ country' = [country EXCEPT ![p] = 0]
  /\ outcome' = [outcome EXCEPT ![p] = "pending"]
  /\ raised' = [raised EXCEPT ![p] = "none"]
  /\ wrote' = [wrote EXCEPT ![p] = {}]
  /\ pre' = [pre EXCEPT ![p] = NoSnapshot]
  /\ response' = NoResponse
  /\ UNCHANGED <<submitted, fetchFailed, voted, reply>>
  /\ visited' = [visited EXCEPT ![p] = {}]
  /\ UNCHANGED <<users, countries, countriesCache, fetchCount, calls>>

\* a read that loads the reference list on its way
GetTopCountries_Loads(scan) ==
  /\ response = NoResponse
  /\ response' = [op |-> "getTopCountries", query |-> <<>>,
                  data |-> getTopCountries(countries, scan)]
  /\ countriesCache' = <<RemoteCountries>>
  /\ fetchCount' = fetchCount + 1
  /\ UNCHANGED <<users, countries, pc, args, countryData, country, outcome,
                 raised, wrote, pre, calls, submitted, fetchFailed, visited,
                 voted, reply>>

\* GET /votes/top
GetTopCountries(scan) ==
  /\ response = NoResponse
  /\ response' = [op |-> "getTopCountries", query |-> <<>>,
                  data |-> getTopCountries(countries, scan)]
  /\ UNCHANGED <<users, countries, countriesCache, fetchCount, pc, args,
                 countryData, country, outcome, raised, wrote, pre, calls,
                 submitted, fetchFailed, visited, voted, reply>>

\* GET /votes/search?q=
SearchCountries(query, scan) ==
  /\ response = NoResponse
  /\ response' = [op |-> "searchCountries", query |-> query,
                  data |-> searchCountries(countries, query, scan)]
  /\ UNCHANGED <<users, countries, countriesCache, fetchCount, pc, args,
                 countryData, country, outcome, raised, wrote, pre, calls,
                 submitted, fetchFailed, visited, voted, reply>>

\* the answer of a read is sent
Deliver ==
  /\ response # NoResponse
  /\ response' = NoResponse
  /\ UNCHANGED <<users, countries, countriesCache, fetchCount, pc, args,
                 countryData, country, outcome, raised, wrote, pre, calls,
                 submitted, fetchFailed, visited, voted, reply>>

\* ------------------------------------------------------ countries gateway
\* lists of codes a caller may pass, duplicates and any order included
CodeLists ==
  UNION {[1..n -> GatewayCodes] : n \in 0..MaxCodes}

\* await this.getAllCountries() when the source answers: the cached list, or
\* the list the outbound request returns, which is then cached
Loaded(list) ==
  \/ /\ countriesCache # <<>>
     /\ list = countriesCache[1]
     /\ UNCHANGED <<countriesCache, fetchCount>>
  \/ /\ countriesCache = <<>>
     /\ countriesCache' = <<list>>
     /\ fetchCount' = fetchCount + 1

\* a call on the gateway that runs alone
GatewayCall ==
  /\ \A p \in Procs : pc[p] = "idle"
  /\ calls < MaxGatewayCalls
  /\ calls' = calls + 1
  /\ UNCHANGED <<users, countries, pc, args, countryData, country, outcome,
                 raised, wrote, pre, submitted, fetchFailed, visited, voted,
                 response>>

\* CountriesService.getCountryByCode(code)
GetCountryByCode(code) ==
  /\ GatewayCall
  /\ \E list \in RemoteResponses :
       /\ Loaded(list)
       /\ reply' = [op |-> "getCountryByCode", input |-> code, threw |-> FALSE,
                    value |-> getCountryByCode(list, code)]

\* CountriesService.getCountriesByCodes(codes)
GetCountriesByCodes(codes) ==
  /\ GatewayCall
  /\ \E list \in RemoteResponses :
       /\ Loaded(list)
       /\ reply' = [op |-> "getCountriesByCodes", input |-> codes,
                    threw |-> FALSE, value |-> getCountriesByCodes(list, codes)]

\* GET /countries: CountriesController.getAllCountries
ListCountries ==
  /\ GatewayCall
  /\ \E list \in RemoteResponses :
       /\ Loaded(list)
       /\ reply' = [op |-> "GET /countries", input |-> <<>>, threw |-> FALSE,
                    value |-> SortByName(ToCountryDto(list))]

GatewayOps == {"getCountryByCode", "getCountriesByCodes", "GET /countries"}

\* the cache is empty and the outbound request fails: the call throws
GatewayUnreachable(op) ==
  /\ GatewayCall
  /\ countriesCache = <<>>
  /\ fetchCount' = fetchCount + 1
  /\ reply' = [op |-> op, input |-> <<>>, threw |-> TRUE,
               value |-> "Error: Failed to fetch countries"]
  /\ UNCHANGED countriesCache

SubmitStep(p) ==
  \/ \E dto \in CreateVoteDto : Call(p, dto, MaxCalls, NoSnapshot)
  \/ FindUser(p)
  \/ LookupCached(p)
  \/ FetchStart(p)
  \/ FetchOk(p)
  \/ FindCountry(p)
  \/ CreateCountry(p)
  \/ Transaction(p)
  \/ Return(p)

\* a collaborator fails; concurrent runs keep no record of which
\* submission it was
Fault(p) ==
  \/ FetchFail(p, fetchFailed)
  \/ DatabaseError(p)

Next ==
  \E p \in Procs : SubmitStep(p) \/ Fault(p)

Spec == Init /\ [][Next]_vars

\* submitVote calls that run one at a time against collaborators that do not
\* fail, each remembering the relations it started from, and the reads,
\* which change no state and may come at any moment, also in the middle of a
\* call (between country.create and $transaction)
SeqCall(p, dto) ==
  /\ \A q \in Procs : pc[q] = "idle"
  /\ Call(p, dto, MaxSeqCalls, [users |-> users, countries |-> countries])

SeqStep(p) ==
  \/ \E dto \in CreateVoteDto : SeqCall(p, dto)
  \/ FindUser(p)
  \/ LookupCached(p)
  \/ FetchStart(p)
  \/ FetchOk(p)
  \/ FindCountry(p)
  \/ CreateCountry(p)
  \/ Transaction(p)
  \/ Return(p)

SeqNext ==
  \/ \E p \in Procs : SeqStep(p)
  \/ \E scan \in ScanOrders : GetTopCountries(scan)
  \/ \E query \in Queries : \E scan \in ScanOrders : SearchCountries(query, scan)
  \/ Deliver

SeqSpec == Init /\ [][SeqNext]_vars

\* calls that run one at a time while the collaborators may fail; the
\* submissions that failed in the outbound request are recorded
SeqFault(p) ==
  \/ FetchFail(p, fetchFailed \cup {args[p]})
  \/ DatabaseError(p)

SeqFaultNext ==
  \E p \in Procs : SeqStep(p) \/ SeqFault(p)

SeqFaultSpec == Init /\ [][SeqFaultNext]_vars

\* the countries gateway and GET /countries, called one at a time
GatewayNext ==
  \/ \E code \in GatewayCodes : GetCountryByCode(code)
  \/ \E codes \in CodeLists : GetCountriesByCodes(codes)
  \/ ListCountries
  \/ \E op \in GatewayOps : GatewayUnreachable(op)

GatewaySpec == Init /\ [][GatewayNext]_vars

\* ------------------------------------------------------------------ claims
Done(p) == pc[p] = "done"

\* C1: in every reachable state, whatever the interleaving of submitVote
\* calls, the User relation holds at most one row per email.
C1_OneRowPerEmail ==
  \A u \in users : \A v \in users : u.email = v.email => u = v

\* two overlapping calls with the same email both passed the duplicate
\* check; one committed and the other was refused by the index
C1_Witness ==
  \E p \in Procs : \E q \in Procs :
    /\ p # q /\ Done(p) /\ Done(q)
    /\ args[p].email = args[q].email
    /\ outcome[p] = "resolved"
    /\ outcome[q] = "P2002: User.email"

\* C2: in every reachable state every Country row's votes equals the number
\* of User rows that reference it, also after a failed transaction and
\* under interleaved submissions.
C2_VotesEqualUserRows ==
  \A c \in countries :
    c.votes = Cardinality({u \in users : u.countryId = c.id})

\* a transaction failed on a country that had just received a vote
C2_Witness ==
  \E p \in Procs : \E q \in Procs :
    /\ p # q /\ Done(p) /\ Done(q)
    /\ country[p] = country[q]
    /\ outcome[p] = "resolved"
    /\ outcome[q] = "P2002: User.email"
    /\ <<"country.update", country[p]>> \in wrote[p]

\* the submission recorded no vote because its email was already taken
RejectedForTakenEmail(p) ==
  /\ Done(p)
  /\ outcome[p] \in {"ConflictException", "P2002: User.email"}

\* the relations a call started from and what its input looks like in them
EmailUnused(p) == \A u \in pre[p].users : u.email # args[p].email
InReferenceData(code) ==
  \E i \in DOMAIN RemoteCountries : RemoteCountries[i].cca3 = code
Unchanged(p) == users = pre[p].users /\ countries = pre[p].countries
VotesOf(cs, code) ==
  IF \E c \in cs : c.code = code
  THEN (CHOOSE c \in cs : c.code = code).votes
  ELSE 0

\* C3: a call whose email has no User row and whose country code is in the
\* reference data succeeds; afterwards exactly one User row has that email,
\* at most one Country row is new, and the votes of the target country are
\* exactly one more than before the call.
C3_FreshVoteSucceeds ==
  \A p \in Procs :
    (Done(p) /\ EmailUnused(p) /\ InReferenceData(args[p].country)) =>
      /\ outcome[p] = "resolved"
      /\ Cardinality({u \in users : u.email = args[p].email}) = 1
      /\ Cardinality({c \in countries :
                        \A d \in pre[p].countries : d.id # c.id}) <= 1
      /\ VotesOf(countries, args[p].country)
           = VotesOf(pre[p].countries, args[p].country) + 1

\* a fresh vote for a country that had no row: the row was created and counts 1
C3_Witness ==
  \E p \in Procs :
    /\ Done(p) /\ EmailUnused(p) /\ InReferenceData(args[p].country)
    /\ outcome[p] = "resolved"
    /\ Cardinality(countries) = Cardinality(pre[p].countries) + 1
    /\ pre[p].countries # {}

\* C4: a call whose email already has a User row fails with
\* ConflictException and leaves the User and Country relations as they were.
C4_UsedEmailConflicts ==
  \A p \in Procs :
    (Done(p) /\ ~EmailUnused(p)) =>
      /\ outcome[p] = "ConflictException"
      /\ Unchanged(p)

\* a used email asked for a valid country that has no row yet
C4_Witness ==
  \E p \in Procs :
    /\ Done(p) /\ ~EmailUnused(p)
    /\ InReferenceData(args[p].country)
    /\ \A c \in pre[p].countries : c.code # args[p].country
    /\ outcome[p] = "ConflictException"

\* C5 as stated: a call whose country code is absent from the reference data
\* fails with BadRequestException and changes nothing.
C5_UnknownCodeBadRequest ==
  \A p \in Procs :
    (Done(p) /\ ~InReferenceData(args[p].country)) =>
      /\ outcome[p] = "BadRequestException"
      /\ Unchanged(p)

\* C5 as amended: a call whose email has no User row when the duplicate
\* check reads it and whose country code is absent from the reference data
\* fails with BadRequestException and changes nothing.
C5_FreshEmailUnknownCodeBadRequest ==
  \A p \in Procs :
    (Done(p) /\ EmailUnused(p) /\ ~InReferenceData(args[p].country)) =>
      /\ outcome[p] = "BadRequestException"
      /\ Unchanged(p)

C5_Witness ==
  \E p \in Procs :
    /\ Done(p) /\ EmailUnused(p) /\ ~InReferenceData(args[p].country)
    /\ outcome[p] = "BadRequestException"
    /\ pre[p].users # {}

\* C6: a submission that records no vote because its email is taken by
\* another, possibly concurrent, submission is answered 409, never 5xx.
C6_TakenEmailAnswered409 ==
  \A p \in Procs : RejectedForTakenEmail(p) => HttpStatus(outcome[p]) = 409

ServerError(p) == Done(p) /\ HttpStatus(outcome[p]) = 500

\* C7 as stated: a call that ended in a 5xx error has written nothing.
C7_NothingWrittenAfter5xx ==
  \A p \in Procs : ServerError(p) => wrote[p] = {}

\* C7 as amended: a call that ended in a 5xx error has inserted no User
\* row, incremented no votes and changed no row that existed before it; the
\* only thing it may have left behind is the Country row it created for its
\* own country code.
C7_OnlyNewCountryRowAfter5xx ==
  \A p \in Procs :
    ServerError(p) =>
      /\ wrote[p] \subseteq {<<"country.create", country[p]>>}
      /\ wrote[p] # {} =>
            \E c \in countries : c.id = country[p] /\ c.code = args[p].country

\* a call created its Country row and then lost the transaction
C7_Witness ==
  \E p \in Procs : ServerError(p) /\ wrote[p] # {}

Answered == response.op # "none"
Data == response.data

\* C8: the list a leaderboard or search read returns has at most 10 entries,
\* no entry with votes 0, and votes that never increase with the position.
C8_AtMostTenPositiveDescending ==
  Answered =>
    /\ Len(Data) <= 10
    /\ \A i \in DOMAIN Data : Data[i].votes > 0
    /\ \A i \in DOMAIN Data : \A j \in DOMAIN Data :
         i < j => Data[i].votes >= Data[j].votes

\* a search that matched more than ten voted rows, with a row of votes 0 in
\* the table and different votes at the two ends of the list
C8_Witness ==
  /\ response.op = "searchCountries"
  /\ ~IsBlank(response.query)
  /\ Len(Data) = 10
  /\ Data[1].votes > Data[10].votes
  /\ Cardinality({c \in countries : MatchesSearch(c, response.query[1])}) > 10
  /\ \E c \in countries : c.votes = 0

\* C9: the entry at 0-based position k has rank k + 1, so the ranks of a
\* list of length n are exactly 1..n and tied countries get distinct,
\* consecutive ranks.
C9_RankIsPosition ==
  Answered =>
    /\ \A k \in 0..(Len(Data) - 1) : Data[k + 1].rank = k + 1
    /\ {Data[i].rank : i \in DOMAIN Data} = 1..Len(Data)

\* two neighbours with equal votes and ranks one apart
C9_Witness ==
  /\ Answered
  /\ \E i \in DOMAIN Data :
       /\ i + 1 \in DOMAIN Data
       /\ Data[i].votes = Data[i + 1].votes
       /\ Data[i + 1].rank = Data[i].rank + 1

\* the row does not appear in the list
Missing(c, list) ==
  \A i \in DOMAIN list :
    ~(list[i].country = c.name /\ list[i].capital = c.capital
      /\ list[i].region = c.region /\ list[i].subRegion = c.subRegion
      /\ list[i].votes = c.votes)

\* C10: every Country row with votes > 0 that getTopCountries leaves out has
\* no more votes than any returned entry, and is left out only when the
\* list already has 10 entries.
C10_TopAreMostVoted ==
  response.op = "getTopCountries" =>
    \A c \in countries :
      (c.votes > 0 /\ Missing(c, Data)) =>
        /\ Len(Data) = 10
        /\ \A i \in DOMAIN Data : c.votes <= Data[i].votes

\* more than ten voted rows: some are left out, one of them tied with the
\* last entry and one below it
C10_Witness ==
  /\ response.op = "getTopCountries"
  /\ \E c \in countries :
       c.votes > 0 /\ Missing(c, Data) /\ c.votes = Data[Len(Data)].votes
  /\ \E c \in countries :
       c.votes > 0 /\ Missing(c, Data) /\ c.votes < Data[Len(Data)].votes

\* ---------------------------------------------------- votes and leaderboard
\* the codes of the reference data and the name each one is stored under
RefCodes == {RemoteCountries[i].cca3 : i \in DOMAIN RemoteCountries}
RefName(code) ==
  (CHOOSE r \in {RemoteCountries[i] : i \in DOMAIN RemoteCountries} :
     r.cca3 = code).name.common

\* the seeded store records one submission per seed user
Seeded == SeedUsers \subseteq users
SeedSubmissions(code) ==
  Cardinality({k \in DOMAIN seedUsers : seedUsers[k].countryCode = code})

\* successful submissions for a country so far
Submissions(code) ==
  (IF code \in Codes THEN submitted[code] ELSE 0)
  + (IF Seeded THEN SeedSubmissions(code) ELSE 0)

Listed(code) == \E i \in DOMAIN Data : Data[i].country = RefName(code)

\* every entry is a voted country with its number of successful submissions,
\* and the numbers never increase with the position
EntriesAreSubmissions ==
  /\ \A i \in DOMAIN Data :
       \E code \in RefCodes :
         /\ Data[i].country = RefName(code)
         /\ Submissions(code) > 0
         /\ Data[i].votes = Submissions(code)
  /\ \A i \in DOMAIN Data : \A j \in DOMAIN Data :
       i < j => Data[i].votes >= Data[j].votes

\* C11 as stated: getTopCountries lists each country that has a successful
\* submission, with votes equal to the number of its successful submissions,
\* in descending order of that number.
C11_EachVotedCountryListed ==
  response.op = "getTopCountries" =>
    /\ EntriesAreSubmissions
    /\ \A code \in RefCodes : Submissions(code) > 0 => Listed(code)

\* C11: getTopCountries lists voted countries only, each with votes equal to
\* the number of its successful submissions, in descending order of that
\* number; a voted country is left out only when 10 entries with at least as
\* many votes are listed.
C11_VotedCountriesListedUpToTen ==
  response.op = "getTopCountries" =>
    /\ EntriesAreSubmissions
    /\ \A code \in RefCodes :
         (Submissions(code) > 0 /\ ~Listed(code)) =>
           /\ Len(Data) = 10
           /\ \A i \in DOMAIN Data : Data[i].votes >= Submissions(code)

\* from the empty store: two votes for ARG and one for URY are listed as ARG
\* with votes 2 at rank 1 and URY with votes 1 at rank 2
C11_Witness ==
  /\ response.op = "getTopCountries"
  /\ ~Seeded
  /\ submitted["ARG"] = 2 /\ submitted["URY"] = 1
  /\ Len(Data) = 2
  /\ Data[1].country = RefName("ARG") /\ Data[1].votes = 2 /\ Data[1].rank = 1
  /\ Data[2].country = RefName("URY") /\ Data[2].votes = 1 /\ Data[2].rank = 2

\* ------------------------------------------------------------------ search
\* absent, empty, or nothing but whitespace
BlankQuery(query) ==
  query = <<>> \/ \A i \in DOMAIN query[1] : query[1][i] \in WhiteSpace

\* C12: a search whose query is absent, empty or only whitespace returns
\* exactly what getTopCountries returns on the same store.
C12_BlankSearchIsTop ==
  (response.op = "searchCountries" /\ BlankQuery(response.query)) =>
    \E scan \in ScanOrders : Data = getTopCountries(countries, scan)

\* a query of a tab, a space and a line break, asked after a vote on the
\* seeded store, is answered with the ten entries of the leaderboard
C12_Witness ==
  /\ response.op = "searchCountries"
  /\ response.query = <<<<"\t", " ", "\n">>>>
  /\ Seeded /\ submitted["URY"] = 1
  /\ Len(Data) = 10

\* part occurs in text when letter case is ignored
OccursIgnoringCase(text, part) ==
  \E k \in 1..(Len(text) - Len(part) + 1) :
    [i \in 1..Len(part) |-> LowerChar(text[k + i - 1])]
      = [i \in 1..Len(part) |-> LowerChar(part[i])]

\* one of the four text fields of a row holds the query
FieldHolds(name, capital, region, subRegion, part) ==
  \/ OccursIgnoringCase(name, part)
  \/ OccursIgnoringCase(capital, part)
  \/ OccursIgnoringCase(region, part)
  \/ OccursIgnoringCase(subRegion, part)

\* C13: for a query that is not blank, searchCountries returns only Country
\* rows with votes > 0 of which name, capital, region or subRegion contains
\* the query whatever the letter case, and such a row is missing only when 10
\* rows with at least as many votes are returned.
C13_SearchReturnsMatchingVotedRows ==
  (response.op = "searchCountries" /\ ~BlankQuery(response.query)) =>
    LET q == response.query[1]
    IN /\ \A i \in DOMAIN Data :
            /\ \E c \in countries : ~Missing(c, <<Data[i]>>)
            /\ Data[i].votes > 0
            /\ FieldHolds(Data[i].country, Data[i].capital, Data[i].region,
                          Data[i].subRegion, q)
       /\ \A c \in countries :
            (/\ c.votes > 0
             /\ FieldHolds(c.name, c.capital, c.region, c.subRegion, q)
             /\ Missing(c, Data)) =>
              /\ Len(Data) = 10
              /\ \A i \in DOMAIN Data : Data[i].votes >= c.votes

\* the query AMER after a vote for Uruguay: the row of Uruguay (South
\* America) is returned, a voted row that does not hold the query is not
C13_Witness ==
  /\ response.op = "searchCountries"
  /\ response.query = <<<<"A", "M", "E", "R">>>>
  /\ submitted["URY"] = 1
  /\ \E i \in DOMAIN Data : Data[i].country = RefName("URY")
  /\ \E c \in countries :
       /\ c.votes > 0 /\ Missing(c, Data)
       /\ ~FieldHolds(c.name, c.capital, c.region, c.subRegion,
                      <<"A", "M", "E", "R">>)

\* ------------------------------------------------------- reference gateway
FetchError == "Error: Failed to fetch countries"

\* the step in which the outbound request of p is answered with the list
FetchSucceeds(p) ==
  /\ pc[p] = "axios.get"
  /\ pc'[p] # "axios.get"
  /\ raised'[p] # FetchError

\* C14: one outbound request is issued however many calls need the list,
\* calls that start before the first fetch has returned included: a request
\* that is answered with the list is the one that fills the empty cache, so
\* no second request is ever answered.
C14_OneOutboundRequest ==
  [][\A p \in Procs : FetchSucceeds(p) => countriesCache = <<>>]_vars

\* C15: once the list is cached, the cache is never overwritten, cleared or
\* replaced.
C15_CacheNeverReplaced ==
  [][countriesCache # <<>> => countriesCache' = countriesCache]_vars

\* the step in which the outbound request of p fails
FetchFails(p) ==
  /\ pc[p] = "axios.get"
  /\ raised'[p] = FetchError

\* the step in which p, needing the list, leaves the cache lookup
NeedsList(p) ==
  /\ pc[p] = "getCountryByCode"
  /\ pc'[p] # "getCountryByCode"

\* C16: when the outbound request fails the call fails with the generic
\* 'Failed to fetch countries' error and the cache is left empty, so that the
\* next call that needs the list issues a new outbound request instead of
\* being served from the cache.
C16_FailedFetchNotCached ==
  [][\A p \in Procs :
       /\ FetchFails(p) =>
            /\ outcome'[p] = FetchError
            /\ countriesCache' = <<>>
       /\ (NeedsList(p) /\ countriesCache = <<>>) =>
            /\ pc'[p] = "axios.get"
            /\ fetchCount' = fetchCount + 1]_vars

\* after a failed request a later call has issued the second request
C16_Witness ==
  /\ fetchFailed # {}
  /\ countriesCache = <<>>
  /\ fetchCount = 2
  /\ \E p \in Procs : pc[p] = "axios.get"

\* the call of p met no failing collaborator
Reachable(p) == raised[p] \notin {FetchError, "PrismaClientError"}

\* C17: a submission with an unused email that meets an unreachable source
\* while the cache is empty ends in a 5xx error, not in the invalid-country
\* error (400), and leaves the User and Country relations as they were; the
\* same submission, retried when the source answers, succeeds.
C17_UnreachableSourceIs5xxAndRetryable ==
  \A p \in Procs :
    (Done(p) /\ EmailUnused(p) /\ args[p] \in fetchFailed) =>
      /\ countriesCache = <<>> =>
           /\ HttpStatus(outcome[p]) = 500
           /\ outcome[p] # "BadRequestException"
           /\ Unchanged(p)
      /\ (Reachable(p) /\ InReferenceData(args[p].country)) =>
           /\ outcome[p] = "resolved"
           /\ VotesOf(countries, args[p].country)
                = VotesOf(pre[p].countries, args[p].country) + 1

\* a submission failed on the outbound request and nothing else has been
\* written since; submitted again, it was accepted
C17_Witness ==
  \E p \in Procs :
    /\ Done(p) /\ EmailUnused(p) /\ args[p] \in fetchFailed
    /\ outcome[p] = "resolved"
    /\ fetchCount = 2
    /\ calls = 2

\* ----------------------------------------------------------- Country rows
\* C18: in every reachable state, also after two overlapping calls for a
\* country code that had no row, the Country relation holds at most one row
\* per code.
C18_OneRowPerCode ==
  \A c \in countries : \A d \in countries : c.code = d.code => c = d

\* two overlapping calls for the same code both found no row; one created
\* it and the other was refused by the index
C18_Witness ==
  \E p \in Procs : \E q \in Procs :
    /\ p # q
    /\ args[p].country = args[q].country
    /\ \E w \in wrote[p] : w[1] = "country.create"
    /\ Done(q) /\ raised[q] = "P2002: Country.code"

\* the records the source may have answered with
ReferenceRecords ==
  UNION {{data[i] : i \in DOMAIN data} : data \in RemoteResponses}

\* the rows a step has inserted into Country
Inserted == {c \in countries' : \A d \in countries : d.id # c.id}

\* text when the record has it, "N/A" when it is absent or empty
OrNA(text) == IF Len(text) = 0 THEN NA ELSE text

\* C19 as stated: a created Country row has votes 0, code and name of the
\* reference record, capital the first element of the record's capital list
\* or "N/A", and region and subRegion the record's values or "N/A" when the
\* record lacks them.
C19_CreatedRowDefaultsAllToNA ==
  [][\A c \in Inserted :
       \E r \in ReferenceRecords :
         /\ c.votes = 0
         /\ c.code = r.cca3 /\ c.name = r.name.common
         /\ c.capital = (IF Len(r.capital) = 0 THEN NA ELSE OrNA(r.capital[1]))
         /\ c.region = OrNA(r.region)
         /\ c.subRegion = OrNA(r.subregion)]_vars

\* C19: a created Country row has votes 0, code and name of the reference
\* record, capital the first element of the record's capital list or "N/A",
\* subRegion the record's subregion or "N/A", and region exactly the
\* record's region, an empty one included.
C19_CreatedRowFromRecord ==
  [][\A c \in Inserted :
       \E r \in ReferenceRecords :
         /\ c.votes = 0
         /\ c.code = r.cca3 /\ c.name = r.name.common
         /\ c.capital = (IF Len(r.capital) = 0 THEN NA ELSE OrNA(r.capital[1]))
         /\ c.region = r.region
         /\ c.subRegion = OrNA(r.subregion)]_vars

\* the row of Uruguay was created from the revised record, which has
\* neither capital nor subregion, and has not been voted yet
C19_Witness ==
  \E c \in countries :
    /\ c.code = "URY" /\ c.votes = 0
    /\ c.capital = NA /\ c.subRegion = NA /\ c.region = <<>>
    /\ \E p \in Procs : pc[p] = "$transaction" /\ country[p] = c.id

\* ------------------------------------------------------------ error signals
TypedSignals == {"ConflictException", "BadRequestException"}

\* C20: a submitVote call that fails ends in exactly one of three ways: the
\* duplicate-email signal and the invalid-country signal leave the call as
\* they were raised, and any other exception raised on the way (reference
\* lookup, country lookup or creation, transaction) is answered as a
\* server-side error; an exception never ends in success.
C20_FailureIsOneOfThree ==
  \A p \in Procs :
    Done(p) =>
      /\ raised[p] = "none" <=> outcome[p] = "resolved"
      /\ raised[p] \in TypedSignals => outcome[p] = raised[p]
      /\ raised[p] \notin TypedSignals \cup {"none"} =>
           /\ outcome[p] \notin TypedSignals
           /\ HttpStatus(outcome[p]) = 500
      /\ raised[p] # "none" => HttpStatus(outcome[p]) \in {409, 400, 500}

\* one call ended with the invalid-country signal as raised, another with a
\* database error answered as a server error
C20_Witness ==
  \E p \in Procs : \E q \in Procs :
    /\ Done(p) /\ raised[p] = "BadRequestException"
    /\ outcome[p] = "BadRequestException"
    /\ Done(q) /\ raised[q] = "PrismaClientError"
    /\ HttpStatus(outcome[q]) = 500

\* ------------------------------------------------------ countries gateway
\* the gateway answered the call
Replied(op) == reply.op = op /\ ~reply.threw

\* the records of the list the gateway holds
Records == {countriesCache[1][i] : i \in DOMAIN countriesCache[1]}

\* C21: getCountryByCode(code) returns the reference record whose cca3 is
\* exactly code, and returns the not-found value without raising for a code
\* that matches no record, one that differs from a known code only in letter
\* case included.
C21_LookupMatchesExactly ==
  Replied("getCountryByCode") =>
    IF \E r \in Records : r.cca3 = reply.input
    THEN /\ Len(reply.value) = 1
         /\ reply.value[1] \in Records
         /\ reply.value[1].cca3 = reply.input
    ELSE reply.value = <<>>

\* arg, which differs from ARG only in letter case, was not found
C21_Witness ==
  /\ Replied("getCountryByCode")
  /\ reply.input = "arg"
  /\ UpperCode[reply.input] \in {r.cca3 : r \in Records}
  /\ reply.value = <<>>

\* C22: for every list of codes, duplicates and any order allowed, the keys
\* of the mapping getCountriesByCodes returns are exactly the distinct
\* requested codes that occur in the reference data, each mapped to a record
\* with that cca3; a requested code that is not in the reference data has no
\* entry.
C22_MappingOfKnownRequestedCodes ==
  Replied("getCountriesByCodes") =>
    LET requested == {reply.input[i] : i \in DOMAIN reply.input}
    IN /\ DOMAIN reply.value = requested \cap {r.cca3 : r \in Records}
       /\ \A k \in DOMAIN reply.value :
            /\ reply.value[k] \in Records
            /\ reply.value[k].cca3 = k

\* URY asked twice around an unknown code: one entry
C22_Witness ==
  /\ Replied("getCountriesByCodes")
  /\ reply.input = <<"URY", "XXX", "URY">>
  /\ DOMAIN reply.value = {"URY"}

\* -------------------------------------------------------------- immutability
\* the row d is the row c with, at most, other votes
SameButVotes(c, d) ==
  /\ d.id = c.id /\ d.code = c.code /\ d.name = c.name
  /\ d.capital = c.capital /\ d.region = c.region
  /\ d.subRegion = c.subRegion

\* C23: no step modifies or deletes a User row, deletes a Country row or
\* changes its code, name, capital, region or subRegion, and the votes of a
\* Country row never decrease.
C23_RowsImmutable ==
  [][/\ users \subseteq users'
     /\ \A c \in countries :
          \E d \in countries' : SameButVotes(c, d) /\ d.votes >= c.votes]_vars

\* a vote was recorded on the seeded store: the seed rows are all there and
\* the voted row counts one more
C23_Witness ==
  /\ SeedUsers \subseteq users
  /\ \E p \in Procs :
       /\ Done(p) /\ outcome[p] = "resolved"
       /\ <<"country.update", country[p]>> \in wrote[p]
       /\ \E c \in SeedCountries : \E d \in countries :
            SameButVotes(c, d) /\ d.id = country[p] /\ d.votes = c.votes + 1

\* --------------------------------------------------------- GET /countries
\* the name a does not come after the name b in the alphabet
NotAfter(a, b) ==
  LET k == FirstDifference(a, b)
  IN IF k = 0 THEN Len(a) <= Len(b)
     ELSE CollationWeight[a[k]] < CollationWeight[b[k]]

EntryOf(r) == [name |-> r.name.common, code |-> r.cca3]

\* C24: GET /countries returns exactly one {name, code} entry per record of
\* the reference list, nothing else, whatever the persisted votes, in
\* alphabetical (non-decreasing) order of name.
C24_OneEntryPerRecordByName ==
  Replied("GET /countries") =>
    /\ Len(reply.value) = Len(countriesCache[1])
    /\ \A r \in Records :
         Cardinality({i \in DOMAIN reply.value : reply.value[i] = EntryOf(r)}) = 1
    /\ \A i \in DOMAIN reply.value : \E r \in Records : reply.value[i] = EntryOf(r)
    /\ \A i \in DOMAIN reply.value : \A j \in DOMAIN reply.value :
         i < j => NotAfter(reply.value[i].name, reply.value[j].name)

\* on the seeded store, which has no row for them, Antarctica comes first
\* and Uruguay last, though the source lists them last
C24_Witness ==
  /\ Replied("GET /countries")
  /\ countries = SeedCountries
  /\ reply.value[1].code = "ATA"
  /\ reply.value[Len(reply.value)].code = "URY"
  /\ countriesCache[1][Len(countriesCache[1])].cca3 = "ATA"

\* ---------------------------------------------------------- order of checks
\* the statements that consult the gateway, and those that read or write
\* the Country relation
GatewayStatements == {"getCountryByCode", "axios.get"}
CountryStatements == {"country.findUnique", "country.create", "$transaction"}

\* C25: the duplicate-email check comes first, so a call with a used email
\* and an invalid code fails with Conflict and never consults the gateway;
\* the country validation comes second, so a call with an invalid code never
\* reads or writes the Country relation.
C25_ChecksInFixedOrder ==
  \A p \in Procs :
    /\ visited[p] # {} => "user.findUnique" \in visited[p]
    /\ visited[p] \cap CountryStatements # {} =>
         "getCountryByCode" \in visited[p]
    /\ (Done(p) /\ ~EmailUnused(p) /\ ~InReferenceData(args[p].country)) =>
         /\ outcome[p] = "ConflictException"
         /\ visited[p] \cap GatewayStatements = {}
    /\ (pc[p] # "idle" /\ ~InReferenceData(args[p].country)) =>
         /\ pc[p] \notin CountryStatements
         /\ visited[p] \cap CountryStatements = {}
         /\ wrote[p] = {}

\* a used email with an invalid code was refused with Conflict while the
\* cache was still empty: no request had gone out
C25_Witness ==
  \E p \in Procs :
    /\ Done(p) /\ ~EmailUnused(p) /\ ~InReferenceData(args[p].country)
    /\ outcome[p] = "ConflictException"
    /\ visited[p] = {"user.findUnique"}
    /\ fetchCount = 0

\* ------------------------------------------------------- overlapping votes
\* the call of p ran into no failing collaborator
NoFault(p) ==
  raised[p] \notin {"Error: Failed to fetch countries", "PrismaClientError"}

\* the call of p has inserted a Country row
Created(p) == \E w \in wrote[p] : w[1] = "country.create"

\* two calls with distinct emails for one code both found no Country row
\* and went on to create it
RacedToCreate(p, q) ==
  /\ p # q /\ Done(p) /\ Done(q)
  /\ args[p].country = args[q].country
  /\ args[p].email # args[q].email
  /\ "country.create" \in visited[p] \cap visited[q]
  /\ NoFault(p) /\ NoFault(q)

\* C26: of two calls with distinct unused emails that race to create the
\* Country row of one unseen code, exactly one creates the row; the other
\* ends in a generic server-side error instead of using the row that now
\* exists, and its vote is not recorded: no User row, no increment.
C26_LoserOfCreateRaceFails ==
  \A p \in Procs : \A q \in Procs :
    RacedToCreate(p, q) =>
      /\ ~(Created(p) /\ Created(q))
      /\ ~Created(q) =>
           /\ Created(p)
           /\ Cardinality({c \in countries : c.code = args[q].country}) = 1
           /\ raised[q] = "P2002: Country.code"
           /\ HttpStatus(outcome[q]) = 500
           /\ wrote[q] = {}

\* both calls went for the row of Uruguay; the winner's vote is the only
\* one recorded
C26_Witness ==
  \E p \in Procs : \E q \in Procs :
    /\ RacedToCreate(p, q) /\ Created(p) /\ ~Created(q)
    /\ outcome[p] = "resolved"
    /\ HttpStatus(outcome[q]) = 500
    /\ VotesOf(countries, args[q].country) = 1
    /\ \A u \in users : u.email # args[q].email

\* C27: votes for one persisted country that interleave in any order and
\* succeed raise its votes by exactly their number: at every moment the votes
\* of a country are the votes it started with plus the submissions that
\* succeeded for it, so no increment is lost.
C27_NoLostIncrement ==
  \A code \in Codes : VotesOf(countries, code) = Submissions(code)

\* two calls for Argentina, seeded with votes, were in flight together and
\* both succeeded on the row that was there
C27_Witness ==
  \E p \in Procs : \E q \in Procs :
    /\ p # q /\ Done(p) /\ Done(q)
    /\ outcome[p] = "resolved" /\ outcome[q] = "resolved"
    /\ args[p].country = "ARG" /\ args[q].country = "ARG"
    /\ ~Created(p) /\ ~Created(q)
    /\ Seeded
    /\ VotesOf(countries, "ARG") = SeedSubmissions("ARG") + 2

\* --------------------------------------------------------- frame of reads
\* C28: getTopCountries and searchCountries leave the User relation, the
\* Country relation and the reference cache as they are and issue no
\* outbound request, so they answer from the persisted rows also while the
\* reference source cannot be reached.
C28_ReadsTouchNothing ==
  [][response'.op \in {"getTopCountries", "searchCountries"} =>
       /\ users' = users
       /\ countries' = countries
       /\ countriesCache' = countriesCache
       /\ fetchCount' = fetchCount
       /\ \E scan \in ScanOrders :
            response'.data \in {getTopCountries(countries, scan),
                                searchCountries(countries, response'.query, scan)}]_vars

\* the leaderboard was answered from the seeded rows while the cache was
\* empty and the outbound request of a vote had not returned
C28_Witness ==
  /\ response.op = "getTopCountries"
  /\ countriesCache = <<>>
  /\ \E p \in Procs : pc[p] = "axios.get"
  /\ Len(Data) = 10

\* ------------------------------------------------------------ references
\* C29: every User row's countryId references an existing Country row, and
\* the code of that row is the country code submitted with the user's vote.
C29_UserReferencesVotedCountry ==
  \A u \in users :
    \E c \in countries :
      /\ c.id = u.countryId
      /\ <<u.email, c.code>> \in voted
      /\ \A v \in voted : v[1] = u.email => v[2] = c.code

\* on the seeded store a vote for Uruguay created the row its User row
\* references
C29_Witness ==
  /\ Seeded
  /\ \E u \in users \ SeedUsers :
       \E c \in countries :
         /\ c.id = u.countryId /\ c.code = "URY"
         /\ <<u.email, "URY">> \in voted

\* ------------------------------------------------------- frame of a vote
\* p takes the step, in a call that found the Country row of its code
StepOnExistingRow(p) ==
  /\ pc'[p] # pc[p]
  /\ pc[p] \in {"country.findUnique", "$transaction"}
  /\ pc'[p] # "country.create"
  /\ ~Created(p)

\* C30: a submitVote for a code that already has a Country row changes
\* nothing in that row except votes, and nothing in any other row: name,
\* capital, region and subRegion stay as stored, also when the reference
\* record of the code now carries other values.
C30_ExistingRowKeepsItsFields ==
  [][\A p \in Procs :
       StepOnExistingRow(p) =>
         /\ \A d \in countries' : \E c \in countries : d.id = c.id
         /\ \A c \in countries :
              \/ c \in countries'
              \/ /\ c.id = country[p]
                 /\ c.code = args[p].country
                 /\ [c EXCEPT !.votes = c.votes + 1] \in countries']_vars

\* a vote was recorded on a row whose capital is not what the reference
\* record seen by that call would give
C30_Witness ==
  \E p \in Procs : \E c \in countries :
    /\ Done(p) /\ outcome[p] = "resolved" /\ ~Created(p)
    /\ c.id = country[p] /\ c.code = args[p].country
    /\ c.capital # NA
    /\ countryData[p][1].capital = <<>>
    /\ c.votes >= 1

====
